---- MODULE Spec2Model ----
(***************************************************************************)
(* Model of the message listener and the sweeper task of src/src/main.rs.  *)
(*                                                                         *)
(* The shared state is Data.recentUsers, an Arc<Mutex<Vec<String>>>.  One  *)
(* task runs the listener for every message event the gateway delivers,    *)
(* and one background task sleeps, takes the mutex and clears the vector.  *)
(* A step of the model is the code a task runs between two suspension      *)
(* points (lock().await, .dm().await, .reply().await, .react().await,      *)
(* sleep().await).                                                         *)
(***************************************************************************)
EXTENDS Integers, Sequences, FiniteSets

(* ------------------------------ bounds -------------------------------- *)

\* Number of listener tasks that can be in progress at the same time.
NumHandlers == 2

\* Number of message events the gateway delivers in one run.
MaxEvents == 3

\* Author ids of the message events (UserId is a u64); one has two digits.
UserIds == {7, 10}

\* Message contents: the trigger, and one that only starts with it.
Contents == {"h", "hh"}

Handlers == 1..NumHandlers

Sweeper == 0

Tasks == Handlers \cup {Sweeper}

NoOwner == -1

NoEvent == [author |-> 0, bot |-> FALSE, content |-> ""]

NoLast == [ev |-> NoEvent, hit |-> FALSE, out |-> <<>>, result |-> "none"]

VARIABLES
    recentUsers,   \* contents of the Vec<String> behind the mutex
    lockOwner,     \* task that holds the MutexGuard, or NoOwner
    lockQueue,     \* tasks suspended in lock().await, oldest first
    pc,            \* position of each listener task
    ev,            \* the message event each listener task is handling
    out,           \* outbound calls the current event has completed
    last,          \* the listener run that returned most recently
    swept,         \* a clear has happened since that listener returned
    pcS,           \* position of the sweeper task
    sweepLog,      \* counts printed by the sweeper, oldest first
    inserted,      \* id strings pushed since the most recent clear
    served,        \* per author: replies with reaction since that clear
    delivered,     \* number of message events delivered so far
    errors         \* number of listener errors given to on_error

vars == <<recentUsers, lockOwner, lockQueue, pc, ev, out, last, swept, pcS,
          sweepLog, inserted, served, delivered, errors>>

(* --------------------------- pure functions --------------------------- *)

Digit(d) ==
    CASE d = 0 -> "0" [] d = 1 -> "1" [] d = 2 -> "2" [] d = 3 -> "3"
      [] d = 4 -> "4" [] d = 5 -> "5" [] d = 6 -> "6" [] d = 7 -> "7"
      [] d = 8 -> "8" [] d = 9 -> "9"

RECURSIVE ToString(_)
\* author.id.to_string(): the decimal digits of the id, most significant first.
ToString(n) ==
    IF n < 10 THEN <<Digit(n)>> ELSE ToString(n \div 10) \o <<Digit(n % 10)>>

\* A membership test against a string that is never an id.
ContainsNever(v, x) ==
    FALSE

\* A membership test that looks at the first element only.
ContainsFirst(v, x) ==
    Len(v) > 0 /\ v[1] = x

\* Vec::contains
Contains(v, x) ==
    \E i \in 1..Len(v) : v[i] = x

\* A push that is done twice.
PushTwice(v, x) ==
    Append(Append(v, x), x)

\* A push that is lost.
PushNothing(v, x) ==
    v

\* A push that replaces what the vector held.
PushOverwrite(v, x) ==
    <<x>>

\* Vec::push
Push(v, x) ==
    Append(v, x)

\* Vec::pop in the place of Vec::clear: one entry is removed.
ClearPop(v) ==
    SubSeq(v, 1, Len(v) - 1)

\* Vec::clear
Clear(v) ==
    <<>>

\* A sweep without the length test.
ShouldClearAlways(v) ==
    TRUE

\* A sweep whose length test never passes.
ShouldClearNever(v) ==
    FALSE

\* A sweep that skips a vector of one entry.
ShouldClearMany(v) ==
    Len(v) > 1

\* if recentUsers.len() > 0
ShouldClear(v) ==
    Len(v) > 0

\* A listener without the bot test.
IsBotNever(e) ==
    FALSE

\* new_message.author.bot
IsBot(e) ==
    e.bot

\* starts_with("h") in the place of the exact match.
IsTriggerPrefix(c) ==
    c \in {"h", "hh"}

\* match new_message.content.as_str() { "h" => ..., _ => {} }
IsTrigger(c) ==
    c = "h"

\* A direct message awaited with ?, so that its failure is returned.
DmResultPropagate(ok) ==
    IF ok THEN "ok" ELSE "err"

\* if let Err(e) = ...dm(...).await { println!(...) }; return Ok(())
DmResult(ok) ==
    "ok"

\* A call whose Result is dropped in the place of ?.
TryIgnore(ok) ==
    "ok"

\* new_message.reply(..).await? and new_message.react(..).await?
Try(ok) ==
    IF ok THEN "ok" ELSE "err"

\* A guard that outlives a listener that returns Err.
GuardLeakOnErr(h, res) ==
    IF res = "err" THEN h ELSE NoOwner

\* The MutexGuard is a local of the listener: it is dropped on every return.
GuardAfterReturn(h, res) ==
    NoOwner

\* on_error: which arm of the match handles a framework error.
OnError(kind) ==
    CASE kind = "Setup" -> "panic"
      [] kind = "Command" -> "println"
      [] OTHER -> "builtin"

Call(op, ok) == [op |-> op, ok |-> ok]

(* ------------------------------- Init --------------------------------- *)

Init ==
    /\ recentUsers = <<>>
    /\ lockOwner = NoOwner
    /\ lockQueue = <<>>
    /\ pc = [h \in Handlers |-> "idle"]
    /\ ev = [h \in Handlers |-> NoEvent]
    /\ out = [h \in Handlers |-> <<>>]
    /\ last = NoLast
    /\ swept = FALSE
    /\ pcS = "sleep"
    /\ sweepLog = <<>>
    /\ inserted = {}
    /\ served = [a \in UserIds |-> 0]
    /\ delivered = 0
    /\ errors = 0

(* ------------------------------ listener ------------------------------ *)

\* The listener of task h returns res: its guard is dropped, the framework
\* takes the result (an Err goes to on_error, whose catch-all arm logs it)
\* and the task ends.
Return(h, wasHit, calls, res) ==
    /\ lockOwner' = GuardAfterReturn(h, res)
    /\ last' = [ev |-> ev[h], hit |-> wasHit, out |-> calls, result |-> res]
    /\ swept' = FALSE
    /\ errors' = IF res = "err" /\ OnError("Listener") # "panic"
                   THEN errors + 1 ELSE errors
    /\ pc' = [pc EXCEPT ![h] = "idle"]
    /\ ev' = [ev EXCEPT ![h] = NoEvent]
    /\ out' = [out EXCEPT ![h] = <<>>]

\* The gateway delivers a message event; its task reaches lock().await.
\* Tasks are anonymous: the new one takes the first free slot.
MessageArrive(h, a, b, c) ==
    /\ pc[h] = "idle"
    /\ \A g \in Handlers : g < h => pc[g] # "idle"
    /\ delivered < MaxEvents
    /\ delivered' = delivered + 1
    /\ ev' = [ev EXCEPT ![h] = [author |-> a, bot |-> b, content |-> c]]
    /\ pc' = [pc EXCEPT ![h] = "lock"]
    /\ lockQueue' = Append(lockQueue, h)
    /\ UNCHANGED <<recentUsers, lockOwner, out, last, swept, pcS, sweepLog,
                   inserted, served, errors>>

\* A lock that does not exclude: the waiter goes on while the mutex is held.
HandlerAcquireNoWait(h) ==
    /\ pc[h] = "lock"
    /\ lockOwner' = h
    /\ lockQueue' = SelectSeq(lockQueue, LAMBDA t : t # h)
    /\ pc' = [pc EXCEPT ![h] = "locked"]
    /\ UNCHANGED <<recentUsers, ev, out, last, swept, pcS, sweepLog,
                   inserted, served, delivered, errors>>

\* lock().await completes for the oldest waiter once the mutex is free.
HandlerAcquire(h) ==
    /\ pc[h] = "lock"
    /\ lockOwner = NoOwner
    /\ lockQueue # <<>>
    /\ Head(lockQueue) = h
    /\ lockOwner' = h
    /\ lockQueue' = Tail(lockQueue)
    /\ pc' = [pc EXCEPT ![h] = "locked"]
    /\ UNCHANGED <<recentUsers, ev, out, last, swept, pcS, sweepLog,
                   inserted, served, delivered, errors>>

\* if new_message.author.bot { return Ok(()); }
HandlerIgnoreBot(h) ==
    /\ pc[h] = "locked"
    /\ IsBot(ev[h])
    /\ Return(h, FALSE, out[h], "ok")
    /\ UNCHANGED <<recentUsers, lockQueue, pcS, sweepLog, inserted, served,
                   delivered>>

\* contains() is true: the task starts the direct message and awaits it.
HandlerRateLimited(h) ==
    /\ pc[h] = "locked"
    /\ ~IsBot(ev[h])
    /\ Contains(recentUsers, ToString(ev[h].author))
    /\ pc' = [pc EXCEPT ![h] = "dm"]
    /\ UNCHANGED <<recentUsers, lockOwner, lockQueue, ev, out, last, swept,
                   pcS, sweepLog, inserted, served, delivered, errors>>

\* contains() is false and the content is "h": the task starts the reply.
HandlerTrigger(h) ==
    /\ pc[h] = "locked"
    /\ ~IsBot(ev[h])
    /\ ~Contains(recentUsers, ToString(ev[h].author))
    /\ IsTrigger(ev[h].content)
    /\ pc' = [pc EXCEPT ![h] = "reply"]
    /\ UNCHANGED <<recentUsers, lockOwner, lockQueue, ev, out, last, swept,
                   pcS, sweepLog, inserted, served, delivered, errors>>

\* contains() is false and the content is not "h": the match arm _ => {}.
HandlerOther(h) ==
    /\ pc[h] = "locked"
    /\ ~IsBot(ev[h])
    /\ ~Contains(recentUsers, ToString(ev[h].author))
    /\ ~IsTrigger(ev[h].content)
    /\ Return(h, FALSE, out[h], "ok")
    /\ UNCHANGED <<recentUsers, lockQueue, pcS, sweepLog, inserted, served,
                   delivered>>

\* The direct message returns, delivered or not; the listener returns.
DmReturn(h, ok) ==
    /\ pc[h] = "dm"
    /\ Return(h, TRUE, Append(out[h], Call("dm", ok)), DmResult(ok))
    /\ UNCHANGED <<recentUsers, lockQueue, pcS, sweepLog, inserted, served,
                   delivered>>

\* The reply returns: on Ok the task starts the reaction, on Err it returns.
ReplyReturn(h, ok) ==
    /\ pc[h] = "reply"
    /\ IF Try(ok) = "ok"
         THEN /\ out' = [out EXCEPT ![h] = Append(@, Call("reply", ok))]
              /\ pc' = [pc EXCEPT ![h] = "react"]
              /\ UNCHANGED <<lockOwner, ev, last, swept, errors>>
         ELSE Return(h, FALSE, Append(out[h], Call("reply", ok)), "err")
    /\ UNCHANGED <<recentUsers, lockQueue, pcS, sweepLog, inserted, served,
                   delivered>>

\* The reaction returns: on Ok the id is pushed, on Err the task returns.
ReactReturn(h, ok) ==
    /\ pc[h] = "react"
    /\ IF Try(ok) = "ok"
         THEN /\ recentUsers' = Push(recentUsers, ToString(ev[h].author))
              /\ inserted' = inserted \cup {ToString(ev[h].author)}
              /\ served' = [served EXCEPT ![ev[h].author] = @ + 1]
              /\ Return(h, FALSE, Append(out[h], Call("react", ok)), "ok")
         ELSE /\ Return(h, FALSE, Append(out[h], Call("react", ok)), "err")
              /\ UNCHANGED <<recentUsers, inserted, served>>
    /\ UNCHANGED <<lockQueue, pcS, sweepLog, delivered>>

(* ------------------------------ sweeper ------------------------------- *)

\* sleep(2 s) elapses; the task reaches lock().await.
SweeperWake ==
    /\ pcS = "sleep"
    /\ pcS' = "lock"
    /\ lockQueue' = Append(lockQueue, Sweeper)
    /\ UNCHANGED <<recentUsers, lockOwner, pc, ev, out, last, swept,
                   sweepLog, inserted, served, delivered, errors>>

SweeperAcquire ==
    /\ pcS = "lock"
    /\ lockOwner = NoOwner
    /\ lockQueue # <<>>
    /\ Head(lockQueue) = Sweeper
    /\ lockOwner' = Sweeper
    /\ lockQueue' = Tail(lockQueue)
    /\ pcS' = "locked"
    /\ UNCHANGED <<recentUsers, pc, ev, out, last, swept, sweepLog,
                   inserted, served, delivered, errors>>

\* if recentUsers.len() > 0 { println!(count); recentUsers.clear(); }
\* The guard is dropped at the end of the loop body.
SweeperSweep ==
    /\ pcS = "locked"
    /\ IF ShouldClear(recentUsers)
         THEN /\ sweepLog' = Append(sweepLog, Len(recentUsers))
              /\ recentUsers' = Clear(recentUsers)
              /\ inserted' = {}
              /\ served' = [a \in UserIds |-> 0]
              /\ swept' = TRUE
         ELSE UNCHANGED <<sweepLog, recentUsers, inserted, served, swept>>
    /\ lockOwner' = NoOwner
    /\ pcS' = "sleep"
    /\ UNCHANGED <<lockQueue, pc, ev, out, last, delivered, errors>>

(* --------------------------- specification ---------------------------- *)

Next ==
    \/ \E h \in Handlers, a \in UserIds, b \in BOOLEAN, c \in Contents :
           MessageArrive(h, a, b, c)
    \/ \E h \in Handlers : HandlerAcquire(h)
    \/ \E h \in Handlers : HandlerIgnoreBot(h)
    \/ \E h \in Handlers : HandlerRateLimited(h)
    \/ \E h \in Handlers : HandlerTrigger(h)
    \/ \E h \in Handlers : HandlerOther(h)
    \/ \E h \in Handlers, ok \in BOOLEAN : DmReturn(h, ok)
    \/ \E h \in Handlers, ok \in BOOLEAN : ReplyReturn(h, ok)
    \/ \E h \in Handlers, ok \in BOOLEAN : ReactReturn(h, ok)
    \/ SweeperWake
    \/ SweeperAcquire
    \/ SweeperSweep

Spec == Init /\ [][Next]_vars

\* A step of listener task h after its event arrived.
HandlerStep(h) ==
    \/ HandlerAcquire(h)
    \/ HandlerIgnoreBot(h)
    \/ HandlerRateLimited(h)
    \/ HandlerTrigger(h)
    \/ HandlerOther(h)
    \/ \E ok \in BOOLEAN : DmReturn(h, ok)
    \/ \E ok \in BOOLEAN : ReplyReturn(h, ok)
    \/ \E ok \in BOOLEAN : ReactReturn(h, ok)

SweeperStep ==
    SweeperWake \/ SweeperAcquire \/ SweeperSweep

\* The runtime polls every task that can run, the timer of the sweeper
\* elapses, and every outbound call returns.  Only the arrival of message
\* events is left to the environment.
Fairness ==
    /\ \A h \in Handlers : WF_vars(HandlerStep(h))
    /\ WF_vars(SweeperStep)

FairSpec == Spec /\ Fairness

(* ------------------------------- claims ------------------------------- *)

\* The id strings of the modelled users.
AllIds == {ToString(a) : a \in UserIds}

\* The id string is an element of the vector.
InSet(id) == id \in {recentUsers[i] : i \in DOMAIN recentUsers}

\* The id string of the author of event e.
AuthorId(e) == ToString(e.author)

\* Task h leaves the code that follows lock().await in this step.
Checks(h) == pc[h] = "locked" /\ pc'[h] # "locked"

\* The listener of task h returns in this step; last' describes its run.
Returns(h) == pc[h] # "idle" /\ pc'[h] = "idle"

OkCall(op) == Call(op, TRUE)

ErrCall(op) == Call(op, FALSE)

\* The run r performed the reply and then the reaction.
Served(r) == r.out = <<OkCall("reply"), OkCall("react")>>

\* C1: a message of a non-bot author whose id is in recentUsers when the
\* listener tests it, whatever its content, takes the warning path: one
\* direct-message attempt, no reply, no reaction, and recentUsers is left as
\* it was; a second "h" never gets a second reply and reaction.
C1_CheckStep ==
    \A h \in Handlers :
        (Checks(h) /\ ~ev[h].bot /\ InSet(AuthorId(ev[h])))
            => /\ pc'[h] = "dm"
               /\ out'[h] = <<>>
               /\ recentUsers' = recentUsers

C1_WarnStep ==
    \A h \in Handlers :
        pc[h] = "dm"
            => /\ recentUsers' = recentUsers
               /\ pc'[h] \in {"dm", "idle"}
               /\ Returns(h) => /\ last'.ev = ev[h]
                                /\ last'.hit
                                /\ last'.out \in {<<OkCall("dm")>>,
                                                  <<ErrCall("dm")>>}

C1_WarnState ==
    /\ \A h \in Handlers : pc[h] = "dm" => out[h] = <<>>
    /\ last.hit => /\ ~last.ev.bot
                   /\ Len(last.out) = 1
                   /\ last.out[1].op = "dm"
                   /\ ~swept => InSet(AuthorId(last.ev))

C1_RateLimitedOnlyWarns ==
    [](C1_WarnState) /\ [][C1_CheckStep /\ C1_WarnStep]_vars

\* C1 witness: a second "h" of a recent author has ended with one direct
\* message and nothing else, with two authors in recentUsers.
C1_Witness ==
    /\ last.hit
    /\ last.ev.content = "h"
    /\ ~last.ev.bot
    /\ Len(last.out) = 1
    /\ InSet(AuthorId(last.ev))
    /\ Len(recentUsers) = 2

\* C2 as stated: a non-bot author that is not in recentUsers sends "h"; the
\* listener performs the reply and then the reaction, and the author is in
\* recentUsers when the listener finishes.
C2_Original ==
    (last.result # "none" /\ ~last.ev.bot /\ ~last.hit
         /\ last.ev.content = "h")
        => /\ Served(last)
           /\ ~swept => InSet(AuthorId(last.ev))

C2_CheckStep ==
    \A h \in Handlers :
        (Checks(h) /\ ~ev[h].bot /\ ~InSet(AuthorId(ev[h]))
             /\ ev[h].content = "h")
            => pc'[h] = "reply" /\ out'[h] = <<>>

C2_FinishStep ==
    \A h \in Handlers :
        (pc[h] = "react" /\ Returns(h) /\ last'.out[2] = OkCall("react"))
            => /\ \E i \in DOMAIN recentUsers' :
                      recentUsers'[i] = AuthorId(ev[h])
               /\ last'.ev = ev[h]
               /\ last'.result = "ok"
               /\ Len(recentUsers') = Len(recentUsers) + 1

C2_Order ==
    /\ \A h \in Handlers :
        /\ pc[h] = "reply" => out[h] = <<>>
        /\ pc[h] = "react" => out[h] = <<OkCall("reply")>>
    /\ (Served(last) /\ ~swept) => InSet(AuthorId(last.ev))
    /\ \A i \in DOMAIN last.out :
           last.out[i].op = "react" => i = 2 /\ last.out[1] = OkCall("reply")

\* C2 amended: the listener attempts the reply first and the reaction only
\* after the reply succeeded; when both succeed the author is in recentUsers
\* when the listener finishes.
C2_TriggerRecordsAuthor ==
    [](C2_Order) /\ [][C2_CheckStep /\ C2_FinishStep]_vars

\* C2 witness: an "h" of an author that was not recent has been replied to
\* and reacted to, and the author is now in recentUsers.
C2_Witness ==
    /\ ~last.hit
    /\ ~last.ev.bot
    /\ last.ev.content = "h"
    /\ Served(last)
    /\ recentUsers = <<AuthorId(last.ev)>>

\* C3: an id is a member of recentUsers if and only if it was pushed after
\* the most recent clear (or after creation when there was no clear).
C3_MembershipSinceClear ==
    \A id \in AllIds \cup {ToString(0)} :
        Contains(recentUsers, id) <=> id \in inserted

\* C3 witness: after a clear of two ids, one has been pushed again and the
\* other, pushed only before the clear, has not.
C3_Witness ==
    /\ sweepLog = <<2>>
    /\ inserted # {}
    /\ inserted # AllIds

\* C4: when the sleep of the sweeper ends while recentUsers is not empty,
\* the vector stays non-empty until the sweeper runs, and the sweeper's step
\* empties it: no id that was recent is contained afterwards.
C4_SweepStep ==
    /\ (pcS \in {"lock", "locked"} /\ Len(recentUsers) > 0 /\ pcS' # "sleep")
           => Len(recentUsers') > 0
    /\ (pcS = "locked" /\ pcS' = "sleep" /\ Len(recentUsers) > 0)
           => /\ recentUsers' = <<>>
              /\ \A id \in AllIds : ~Contains(recentUsers', id)

C4_SweepEmpties ==
    [][C4_SweepStep]_vars

\* C4 witness: the sweeper has cleared a vector of one entry and sleeps.
C4_Witness ==
    /\ sweepLog # <<>>
    /\ sweepLog[Len(sweepLog)] = 1
    /\ recentUsers = <<>>
    /\ swept
    /\ pcS = "sleep"

\* C5: a message whose author is a bot never changes recentUsers and never
\* causes a reply, a reaction or a direct message, whatever its content and
\* whether or not its author id is in recentUsers.
C5_BotStep ==
    \A h \in Handlers :
        (ev[h].bot /\ (lockOwner = h \/ Checks(h)))
            => /\ recentUsers' = recentUsers
               /\ Checks(h) => /\ Returns(h)
                               /\ last'.ev = ev[h]
                               /\ last'.out = <<>>
                               /\ last'.result = "ok"

C5_BotState ==
    /\ \A h \in Handlers :
        ev[h].bot => out[h] = <<>> /\ pc[h] \in {"lock", "locked"}
    /\ last.ev.bot => last.out = <<>> /\ ~last.hit /\ last.result = "ok"

C5_BotIgnored ==
    [](C5_BotState) /\ [][C5_BotStep]_vars

\* C5 witness: an "h" of a bot whose id is in recentUsers has been ignored.
C5_Witness ==
    /\ last.ev.bot
    /\ last.ev.content = "h"
    /\ InSet(AuthorId(last.ev))
    /\ last.out = <<>>
    /\ last.result = "ok"

\* Number of replies with reaction since the most recent clear.
RECURSIVE SumServed(_)
SumServed(S) ==
    IF S = {} THEN 0
    ELSE LET a == CHOOSE x \in S : TRUE
         IN  served[a] + SumServed(S \ {a})

\* C6: when distinct authors that were not recent each get their "h"
\* replied to and reacted to in one window (no clear in between), every one
\* of them is in recentUsers once their listeners have finished, and the
\* vector holds one entry per such listener: no push is lost.
C6_NoLostInsert ==
    /\ \A a \in UserIds : served[a] > 0 => InSet(ToString(a))
    /\ Len(recentUsers) = SumServed(UserIds)

\* C6 witness: every modelled author has been served in the first window,
\* the second while the first was still in the vector, and all listeners
\* have finished.
C6_Witness ==
    /\ \A a \in UserIds : served[a] = 1 /\ InSet(ToString(a))
    /\ Len(recentUsers) = Cardinality(UserIds)
    /\ \A h \in Handlers : pc[h] = "idle"
    /\ sweepLog = <<>>

\* C7: a listener whose reply or reaction fails returns Err, which the
\* framework gives to on_error (the arm that logs, not the one that panics),
\* and its guard is released; after a failure every task that waits for the
\* mutex still gets it: a later listener runs to its end and the sweeper
\* completes its sweep.
C7_ErrStep ==
    \A h \in Handlers :
        (pc[h] \in {"reply", "react"} /\ Returns(h)
             /\ ~last'.out[Len(last'.out)].ok)
            => /\ last'.result = "err"
               /\ last'.ev = ev[h]
               /\ lockOwner' = NoOwner
               /\ errors' = errors + 1
               /\ recentUsers' = recentUsers

C7_ErrState ==
    /\ last.result = "err"
           => /\ last.out \in {<<ErrCall("reply")>>,
                               <<OkCall("reply"), ErrCall("react")>>}
              /\ errors > 0
    /\ errors > 0 => OnError("Listener") = "builtin"
    /\ lockOwner \in Handlers => pc[lockOwner] \notin {"idle", "lock"}

C7_Progress ==
    /\ \A h \in Handlers : (errors > 0 /\ pc[h] = "lock") ~> (pc[h] = "idle")
    /\ (errors > 0 /\ pcS = "lock") ~> (pcS = "sleep")

C7_FailureLeavesSystemLive ==
    [](C7_ErrState) /\ [][C7_ErrStep]_vars /\ C7_Progress

\* C7 witness: after a failed listener was given to on_error, a later "h"
\* has been served and the sweeper has then cleared the vector.
C7_Witness ==
    /\ errors > 0
    /\ Served(last)
    /\ swept
    /\ recentUsers = <<>>
    /\ pcS = "sleep"

\* C8: when the direct message to a recent author fails, the listener still
\* returns Ok (nothing goes to on_error), recentUsers is left as it was, and
\* the author stays in recentUsers until the next clear.
C8_DmStep ==
    \A h \in Handlers :
        pc[h] = "dm"
            => /\ recentUsers' = recentUsers
               /\ InSet(AuthorId(ev[h]))
               /\ Returns(h) => /\ last'.result = "ok"
                                /\ errors' = errors
                                /\ lockOwner' = NoOwner

C8_DmState ==
    last.out = <<ErrCall("dm")>>
        => /\ last.result = "ok"
           /\ last.hit
           /\ ~swept => InSet(AuthorId(last.ev))

C8_DmFailureSwallowed ==
    [](C8_DmState) /\ [][C8_DmStep]_vars

\* C8 witness: a listener whose direct message failed has returned Ok, no
\* error was given to on_error and its author is still in recentUsers.
C8_Witness ==
    /\ last.out = <<ErrCall("dm")>>
    /\ last.result = "ok"
    /\ errors = 0
    /\ InSet(AuthorId(last.ev))

\* C9: a message of a non-bot author that is not in recentUsers and whose
\* content is not "h" causes no reply, no reaction, no direct message and
\* no push: recentUsers is left as it was.
C9_OtherStep ==
    \A h \in Handlers :
        (Checks(h) /\ ~ev[h].bot /\ ~InSet(AuthorId(ev[h]))
             /\ ev[h].content # "h")
            => /\ Returns(h)
               /\ last'.ev = ev[h]
               /\ last'.result = "ok"
               /\ last'.out = <<>>
               /\ recentUsers' = recentUsers

C9_OtherState ==
    /\ \A h \in Handlers :
           pc[h] \in {"reply", "react"} => ev[h].content = "h"
    /\ (~last.hit /\ last.ev.content # "h") => last.out = <<>>

C9_NonTriggerNoEffect ==
    [](C9_OtherState) /\ [][C9_OtherStep]_vars

\* C9 witness: a message "hh" of an author that is not recent has ended
\* with no outbound call while another author is in recentUsers.
C9_Witness ==
    /\ last.result = "ok"
    /\ ~last.ev.bot
    /\ last.ev.content = "hh"
    /\ ~last.hit
    /\ last.out = <<>>
    /\ ~InSet(AuthorId(last.ev))
    /\ Len(recentUsers) = 1

\* C10 as stated: no listener is suspended on an outbound call (direct
\* message, reply, reaction) while it owns the mutex.
C10_NoLockAcrossAwait ==
    \A h \in Handlers :
        pc[h] \in {"dm", "reply", "react"} => lockOwner # h

\* The listener of task h is suspended on an outbound call.
Awaiting(h) == pc[h] \in {"dm", "reply", "react"}

\* Task h is the oldest waiter of the mutex and handles "h" of a non-bot.
WaitingTrigger(h) ==
    /\ pc[h] = "lock"
    /\ Head(lockQueue) = h
    /\ ~ev[h].bot
    /\ ev[h].content = "h"

\* C11 as stated: the membership test and the push of one trigger event are
\* two lock acquisitions, so the mutex is free between them, and a second
\* "h" of the same author that arrives in between can take the mutex and
\* pass its own membership test before the first is recorded.
C11_CheckThenActRace ==
    \A g \in Handlers :
        pc[g] \in {"reply", "react"}
            => /\ lockOwner # g
               /\ \A h \in Handlers \ {g} :
                      (WaitingTrigger(h) /\ ev[h].author = ev[g].author)
                          => ENABLED HandlerAcquire(h)

\* The authors whose id string is an element of the vector.
RecentAuthors == {a \in UserIds : InSet(ToString(a))}

C12_CountStep ==
    sweepLog' # sweepLog
        => sweepLog' = Append(sweepLog, Cardinality(RecentAuthors))

C12_Distinct ==
    /\ \A i, j \in DOMAIN recentUsers :
           recentUsers[i] = recentUsers[j] => i = j
    /\ Len(recentUsers) = Cardinality(RecentAuthors)

C13_ConcurrentHandlers ==
    \A g, h \in Handlers :
        (Awaiting(g) /\ pc[h] = "lock" /\ Head(lockQueue) = h
             /\ ev[h].author # ev[g].author)
            => ENABLED HandlerAcquire(h)

\* Task t is between the completion of its lock().await and the drop of the
\* guard it got from it.
InCritical(t) ==
    IF t = Sweeper THEN pcS = "locked"
    ELSE pc[t] \in {"locked", "dm", "reply", "react"}

C14_Exclusion ==
    /\ \A t \in Tasks : InCritical(t) <=> lockOwner = t
    /\ Cardinality({t \in Tasks : InCritical(t)}) <= 1

C14_AccessStep ==
    /\ \A h \in Handlers : Checks(h) => lockOwner = h /\ ~InCritical(Sweeper)
    /\ recentUsers' # recentUsers
           => /\ lockOwner \in Tasks
              /\ lockOwner' = NoOwner
              /\ IF lockOwner = Sweeper
                 THEN pcS' = "sleep" /\ recentUsers' = <<>>
                 ELSE /\ pc[lockOwner] = "react"
                      /\ Returns(lockOwner)
                      /\ recentUsers' =
                             Push(recentUsers, AuthorId(ev[lockOwner]))

\* C14: at most one task, listener or sweeper, owns the mutex of recentUsers
\* at any moment; each membership test, push and clear is a step of the task
\* that owns it; and the clear is one step from the full vector to the empty
\* one, so no listener sees a partly cleared vector.
C14_MutualExclusion ==
    [](C14_Exclusion) /\ [][C14_AccessStep]_vars

\* C14 witness: the sweeper owns the mutex of a non-empty vector while a
\* listener waits for it.
C14_Witness ==
    /\ lockOwner = Sweeper
    /\ recentUsers # <<>>
    /\ \E h \in Handlers : pc[h] = "lock"

\* The step appends exactly one id string to the vector.
AppendsOne == \E id \in AllIds : recentUsers' = Append(recentUsers, id)

\* The step is the sweeper's, and it empties a non-empty vector.
SweeperClears ==
    /\ pcS = "locked"
    /\ pcS' = "sleep"
    /\ recentUsers # <<>>
    /\ recentUsers' = <<>>

C15_GrowStep ==
    /\ (\/ recentUsers' = recentUsers
        \/ AppendsOne
        \/ SweeperClears)
    /\ Len(recentUsers') < Len(recentUsers) => SweeperClears
    /\ ~SweeperClears
           => \A i \in DOMAIN recentUsers : recentUsers'[i] = recentUsers[i]

\* C15: recentUsers starts empty and only grows between clears: a step that
\* is not the sweeper's clear leaves the vector as it is or appends exactly
\* one id, no step removes a single entry, and the only step that shrinks
\* the vector is the sweeper's, which sets it to empty.
C15_OnlyGrowsBetweenClears ==
    (recentUsers = <<>>) /\ [][C15_GrowStep]_vars

\* C15 witness: the vector grew to one id, was cleared, and has grown to two
\* ids since.
C15_Witness ==
    /\ sweepLog = <<1>>
    /\ Len(recentUsers) = 2

\* The step is the body of one iteration of the sweeper's loop after its
\* lock().await.
SweepStep == pcS = "locked" /\ pcS' = "sleep"

C16_SweepStep ==
    /\ (SweepStep /\ Len(recentUsers) > 0)
           => /\ sweepLog' = Append(sweepLog, Len(recentUsers))
              /\ recentUsers' = <<>>
    /\ (SweepStep /\ Len(recentUsers) = 0)
           => /\ sweepLog' = sweepLog
              /\ recentUsers' = <<>>
    /\ ~SweepStep => sweepLog' = sweepLog

C16_Records ==
    /\ \A i \in DOMAIN sweepLog : sweepLog[i] >= 1
    /\ Len(sweepLog) <= delivered

\* C16: each wake-up of the sweeper that finds recentUsers non-empty writes
\* exactly one record, whose count is the number of entries just before the
\* clear, and leaves the vector empty; a wake-up that finds it empty writes
\* no record and leaves it empty, so two sweeps with no push in between
\* write at most one record.
C16_SweepRecords ==
    [](C16_Records) /\ [][C16_SweepStep]_vars

\* C16 witness: after a sweep that logged a count of two, the sweeper has
\* woken up again and holds the mutex of the empty vector.
C16_Witness ==
    /\ sweepLog = <<2>>
    /\ recentUsers = <<>>
    /\ pcS = "locked"

\* The sweeper's sleep is over and its lock().await has not completed.
SweepStalled == pcS = "lock"

C17_StalledState ==
    SweepStalled
        => /\ {recentUsers[i] : i \in DOMAIN recentUsers} = inserted
           /\ Len(recentUsers) = Cardinality(inserted)

C17_StalledStep ==
    (SweepStalled /\ pcS' = "lock")
        => \/ recentUsers' = recentUsers
           \/ /\ AppendsOne
              /\ inserted' = inserted \cup {recentUsers'[Len(recentUsers')]}

C17_EventuallyCleared ==
    /\ \A id \in AllIds : InSet(id) ~> ~InSet(id)
    /\ (SweepStalled /\ recentUsers # <<>>) ~> (swept /\ recentUsers = <<>>)

\* C17: when the mutex is granted in arrival order and every outbound call
\* returns, a sweep that has to wait for the mutex is late but not lost:
\* every id in recentUsers is eventually not in it, and while the sweeper
\* waits the vector holds exactly the ids pushed since the last clear.
C17_StalledSweepOnlyDelays ==
    [](C17_StalledState) /\ [][C17_StalledStep]_vars /\ C17_EventuallyCleared

\* C17 witness: the sweeper waits for the mutex of a non-empty vector while
\* the listener that owns it awaits an outbound call.
C17_Witness ==
    /\ SweepStalled
    /\ recentUsers # <<>>
    /\ lockOwner \in Handlers
    /\ Awaiting(lockOwner)

\* The listener of task h returns in this step after a reply and a reaction
\* that both succeeded.
ServedStep(h) ==
    /\ pc[h] = "react"
    /\ Returns(h)
    /\ Served(last')

C18_ServeStep ==
    \A h \in Handlers :
        ServedStep(h)
            => /\ served[ev[h].author] = 0
               /\ ~InSet(AuthorId(ev[h]))
               /\ served'[ev[h].author] = 1

\* C18: whatever the interleaving, between two consecutive clears (or from
\* the start to the first clear) at most one "h" of an author gets both its
\* reply and its reaction.
C18_OneServePerWindow ==
    [](\A a \in UserIds : served[a] <= 1) /\ [][C18_ServeStep]_vars

\* C18 witness: an author was served once, and a second "h" of the same
\* author in the same window got the direct message only.
C18_Witness ==
    /\ Len(recentUsers) = 1
    /\ served[last.ev.author] = 1
    /\ last.ev.content = "h"
    /\ last.hit
    /\ last.out = <<OkCall("dm")>>
    /\ sweepLog = <<>>

C19_State ==
    /\ \A a \in UserIds : InSet(ToString(a)) => served[a] >= 1
    /\ \A h \in Handlers :
           pc[h] \in {"reply", "react"} => ~InSet(AuthorId(ev[h]))

C19_Step ==
    /\ \A h \in Handlers :
           (pc[h] \in {"reply", "react"} /\ Returns(h))
               => IF Served(last')
                  THEN recentUsers' = Append(recentUsers, AuthorId(ev[h]))
                  ELSE /\ recentUsers' = recentUsers
                       /\ served' = served
                       /\ last'.out \in {<<ErrCall("reply")>>,
                                         <<OkCall("reply"), ErrCall("react")>>}
    /\ AppendsOne
           => /\ Served(last')
              /\ recentUsers'[Len(recentUsers')] = AuthorId(last'.ev)
    /\ \A h \in Handlers :
           (Checks(h) /\ ev[h].content = "h" /\ ~ev[h].bot
                /\ last.result = "err" /\ last.ev.author = ev[h].author)
               => pc'[h] = "reply"

\* C19: an id is pushed only after the reply and the reaction of its "h"
\* both succeeded; when the reply fails, or the reply succeeds and the
\* reaction fails, recentUsers is unchanged, so the author is not
\* rate-limited and its next "h" is replied to instead of warned; every id
\* in the vector is that of an author served since the last clear.
C19_InsertOnlyAfterSuccess ==
    [](C19_State) /\ [][C19_Step]_vars

\* C19 witness: the reaction to an author's "h" failed, and the next "h" of
\* the same author, in the same window, is being replied to.
C19_Witness ==
    /\ last.result = "err"
    /\ last.out = <<OkCall("reply"), ErrCall("react")>>
    /\ \E h \in Handlers : pc[h] = "reply" /\ ev[h].author = last.ev.author
    /\ sweepLog = <<>>

====
